---- MODULE Spec2Model ----
(***************************************************************************)
(* Model of the flashcard image renderer, src/src/flash_card.py            *)
(* (class FlashcardGenerator): word wrapping, font-size fitting, template  *)
(* discovery and the front/back pairing of create_flashcard_pair.          *)
(*                                                                         *)
(* A text is a sequence of one-character strings.  A font is a record      *)
(* [tier, size]: tier is the branch of load_font that succeeded on the     *)
(* host ("arial", "dejavu", or "default", the built-in font whose size is  *)
(* 10 whatever size was asked for).  Pillow's glyph metrics are modelled   *)
(* by a per-tier advance and height table scaled by the font size.         *)
(*                                                                         *)
(* The last part models the leveling pass of create_memory_map,            *)
(* src/src/memory_map.py: a concept is a string, a relation a pair of      *)
(* concepts, a dict a sequence of <<key, value>> in insertion order.       *)
(* Then load_pdf_files of src/src/data_loader.py, statement by statement   *)
(* over the temp_uploads directory.  Last, the Flashcards page of           *)
(* src/st_app.py: the parsing of the model's response into qa_dict.        *)
(***************************************************************************)
EXTENDS Integers, Sequences, FiniteSets, TLC

\* ---------------------------------------------------------------- bounds
MaxLen == 5          \* longest text, in characters
MaxInitSize == 13    \* initial font sizes run over 10..MaxInitSize and 32
LongWords == 26      \* words of the long text given to the renderer
MaxMinConnections == 3  \* min_connections runs over 1..MaxMinConnections
MaxUploads == 2      \* most files given to load_pdf_files
MaxFragments == 4    \* most fragments the pattern finds in a response
MaxNumCards == 4     \* num_cards runs over MinNumCards..MaxNumCards
MaxMessages == 2     \* most chat messages kept in a session

\* ------------------------------------------------------ program constants
FloorSize == 10      \* while ... and font_size > 10
ShrinkStep == 2      \* font_size -= 2
LineGap == 15        \* (len(lines) - 1) * 15
TemplateInitSize == 32
SimpleInitSize == 36
SimpleMaxWidth == 700
SimpleWidth == 800
SimpleHeight == 500
MarginPx == 50
DefaultFontSize == 10
LabelFontSize == 20
LabelPos == 20
MinShown == 5        \* if len(significant_concepts) < 5
FirstFew == 5        \* list(concepts)[:5]
MinNumCards == 3     \* st.slider(..., min_value=3, ...)
DefaultNumCards == 5 \* st.slider(..., value=5)

VARIABLES
  fontTier,      \* which branch of load_font succeeds on this host
  fitPc,         \* position inside scale_font_size_to_fit
  text,          \* argument text
  max_width,     \* argument max_width
  max_height,    \* argument max_height
  font,          \* local font
  font_size,     \* local font_size
  lines,         \* local lines
  total_height,  \* local total_height
  init_size,     \* font.size on entry (history)
  iters,         \* completed iterations of the while loop (history)
  files,         \* the file system: path -> kind of file found there
  dirs,          \* the directories that exist
  genPc,         \* "new" before __init__ has run, "ready" after
  question_templates,  \* self.question_templates
  answer_templates,    \* self.answer_templates
  margin,        \* self.margin
  last,          \* the latest create_flashcard_pair call and its outcome
  prev,          \* the call before it (history)
  ctor,          \* the arguments __init__ was called with (history)
  calls,         \* per thread: the locals of its create_flashcard_pair call
  mapPc,         \* position inside create_memory_map
  concepts,      \* concepts, as extract_concepts_and_relations returned them
  relations,     \* relations, likewise
  min_connections,       \* argument min_connections
  edge_weights,          \* local edge_weights
  concept_connections,   \* local concept_connections
  significant_concepts,  \* local significant_concepts
  root_node,     \* local root_node
  levels,        \* local levels
  current_level, \* local current_level
  visited,       \* local visited
  max_level,     \* local max_level
  remaining_concepts,    \* local remaining_concepts
  pdfPc,         \* position inside load_pdf_files
  uploads,       \* arguments files and filenames, zipped
  upload_i,      \* index of the file the loop is at
  temp_exists,   \* whether ./temp_uploads exists
  temp_files,    \* the names of the files in ./temp_uploads
  documents,     \* local documents: the names of the files loaded so far
  parsePc,       \* position of the response parsing
  response,      \* the fragments re.finditer finds in the response, in order
  num_cards,     \* the slider's value
  qa_pairs,      \* local qa_pairs
  selected_page, \* the navigation radio
  uploaded_files,        \* whether the file uploader holds files
  files_processed,       \* st.session_state.files_processed
  vectorstore,   \* whether st.session_state.vectorstore is a store (not None)
  messages,      \* len(st.session_state.messages)
  qa_dict,       \* st.session_state.qa_dict
  idx,           \* st.session_state.idx
  show_front,    \* st.session_state.show_front
  flashcards_generated,  \* st.session_state.flashcards_generated
  generations,   \* generations completed in the session (history)
  clicked,       \* the user's latest action (history)
  current_q      \* the question the page looked up in its latest run

fitVars == <<fitPc, text, max_width, max_height, font, font_size, lines,
             total_height, init_size, iters>>
genVars == <<files, dirs, genPc, question_templates, answer_templates, margin,
             last, prev, ctor>>
mapVars == <<mapPc, concepts, relations, min_connections, edge_weights,
             concept_connections, significant_concepts, root_node, levels,
             current_level, visited, max_level, remaining_concepts>>
pdfVars == <<pdfPc, uploads, upload_i, temp_exists, temp_files, documents>>
parseVars == <<parsePc, response, num_cards, qa_pairs>>
appVars == <<selected_page, uploaded_files, files_processed, vectorstore,
             messages, qa_dict, idx, show_front, flashcards_generated,
             generations, clicked, current_q>>
sideVars == <<pdfVars, parseVars, appVars>>
auxVars == <<calls, mapVars, sideVars>>
vars == <<fontTier, fitVars, genVars, auxVars>>

Chars == {" ", "a", "b"}
Tiers == {"arial", "dejavu", "default"}

RECURSIVE SeqsUpTo(_)
SeqsUpTo(n) ==
  IF n = 0 THEN {<<>>}
  ELSE LET S == SeqsUpTo(n - 1)
       IN S \cup {Append(s, c) : s \in {t \in S : Len(t) = n - 1}, c \in Chars}
Texts == SeqsUpTo(MaxLen)

\* ------------------------------------------------------------ str helpers
\* str.split(): maximal runs of non-whitespace characters, in order
RECURSIVE SplitAcc(_, _, _)
SplitAcc(t, cur, acc) ==
  IF t = <<>> THEN (IF cur = <<>> THEN acc ELSE Append(acc, cur))
  ELSE IF Head(t) = " "
       THEN SplitAcc(Tail(t), <<>>, IF cur = <<>> THEN acc ELSE Append(acc, cur))
       ELSE SplitAcc(Tail(t), Append(cur, Head(t)), acc)
\* str.split(' '): every space separates, empty words are kept
RECURSIVE SplitOnSpaceAcc(_, _, _)
SplitOnSpaceAcc(t, cur, acc) ==
  IF t = <<>> THEN Append(acc, cur)
  ELSE IF Head(t) = " "
       THEN SplitOnSpaceAcc(Tail(t), <<>>, Append(acc, cur))
       ELSE SplitOnSpaceAcc(Tail(t), Append(cur, Head(t)), acc)
split_OnSpace(t) == SplitOnSpaceAcc(t, <<>>, <<>>)
split(t) == SplitAcc(t, <<>>, <<>>)

\* ' '.join(words)
RECURSIVE join(_)
join(ws) ==
  IF ws = <<>> THEN <<>>
  ELSE IF Len(ws) = 1 THEN ws[1]
       ELSE ws[1] \o <<" ">> \o join(Tail(ws))

\* ------------------------------------------------------------------ fonts
\* load_font(size): the first tier that loads; the built-in font of the
\* last tier ignores the requested size
load_font(size) ==
  [tier |-> fontTier,
   size |-> IF fontTier = "default" THEN DefaultFontSize ELSE size]

\* horizontal advance of one glyph, per point of font size
GlyphAdvance(tier, c) ==
  CASE tier = "arial"   -> (IF c = "b" THEN 7 ELSE IF c = "a" THEN 2 ELSE 1)
    [] tier = "dejavu"  -> (IF c = "b" THEN 6 ELSE IF c = "a" THEN 3 ELSE 2)
    [] tier = "default" -> (IF c = "b" THEN 4 ELSE IF c = "a" THEN 2 ELSE 1)

\* ink height of one glyph in quarters of the font size; a space has no ink
GlyphRise(tier, c) ==
  IF c = " " THEN 0
  ELSE IF c = "b" THEN 3
  ELSE IF tier = "dejavu" THEN 3 ELSE 2

RECURSIVE TextWidth(_, _)
TextWidth(t, f) ==
  IF t = <<>> THEN 0
  ELSE GlyphAdvance(f.tier, Head(t)) * f.size + TextWidth(Tail(t), f)

RECURSIVE TextHeight(_, _)
TextHeight(t, f) ==
  IF t = <<>> THEN 0
  ELSE LET h == (GlyphRise(f.tier, Head(t)) * f.size) \div 4
           r == TextHeight(Tail(t), f)
       IN IF h > r THEN h ELSE r

\* get_text_bbox(text, font) -> (width, height)
get_text_bbox(t, f) == <<TextWidth(t, f), TextHeight(t, f)>>

\* --------------------------------------------------------------- wrap_text
RECURSIVE WrapLoop(_, _, _, _, _)
WrapLoop(words, ls, current_line, f, mw) ==
  IF words = <<>>
  THEN IF current_line # <<>> THEN Append(ls, join(current_line)) ELSE ls
  ELSE LET word == Head(words)
           test_line == join(Append(current_line, word))
           width == get_text_bbox(test_line, f)[1]
       IN IF width <= mw
          THEN WrapLoop(Tail(words), ls, Append(current_line, word), f, mw)
          ELSE WrapLoop(Tail(words),
                        IF current_line # <<>>
                        THEN Append(ls, join(current_line)) ELSE ls,
                        <<word>>, f, mw)

\* wrap_text measuring the new word alone instead of the whole test line
RECURSIVE WrapLoopWordOnly(_, _, _, _, _)
WrapLoopWordOnly(words, ls, current_line, f, mw) ==
  IF words = <<>>
  THEN IF current_line # <<>> THEN Append(ls, join(current_line)) ELSE ls
  ELSE LET word == Head(words)
           width == get_text_bbox(word, f)[1]
       IN IF width <= mw
          THEN WrapLoopWordOnly(Tail(words), ls, Append(current_line, word), f, mw)
          ELSE WrapLoopWordOnly(Tail(words),
                        IF current_line # <<>>
                        THEN Append(ls, join(current_line)) ELSE ls,
                        <<word>>, f, mw)
wrap_text_WordOnly(t, f, mw) == WrapLoopWordOnly(split(t), <<>>, <<>>, f, mw)

\* wrap_text without the flush of the last line after the loop
RECURSIVE WrapLoopNoFlush(_, _, _, _, _)
WrapLoopNoFlush(words, ls, current_line, f, mw) ==
  IF words = <<>>
  THEN ls
  ELSE LET word == Head(words)
           test_line == join(Append(current_line, word))
           width == get_text_bbox(test_line, f)[1]
       IN IF width <= mw
          THEN WrapLoopNoFlush(Tail(words), ls, Append(current_line, word), f, mw)
          ELSE WrapLoopNoFlush(Tail(words),
                        IF current_line # <<>>
                        THEN Append(ls, join(current_line)) ELSE ls,
                        <<word>>, f, mw)
wrap_text_NoFlush(t, f, mw) == WrapLoopNoFlush(split(t), <<>>, <<>>, f, mw)

\* wrap_text closing the current line without the "if current_line" guard
RECURSIVE WrapLoopNoGuard(_, _, _, _, _)
WrapLoopNoGuard(words, ls, current_line, f, mw) ==
  IF words = <<>>
  THEN IF current_line # <<>> THEN Append(ls, join(current_line)) ELSE ls
  ELSE LET word == Head(words)
           test_line == join(Append(current_line, word))
           width == get_text_bbox(test_line, f)[1]
       IN IF width <= mw
          THEN WrapLoopNoGuard(Tail(words), ls, Append(current_line, word), f, mw)
          ELSE WrapLoopNoGuard(Tail(words), Append(ls, join(current_line)),
                               <<word>>, f, mw)
wrap_text_NoGuard(t, f, mw) == WrapLoopNoGuard(split(t), <<>>, <<>>, f, mw)

\* wrap_text accepting a word only when the line stays below max_width
RECURSIVE WrapLoopStrict(_, _, _, _, _)
WrapLoopStrict(words, ls, current_line, f, mw) ==
  IF words = <<>>
  THEN IF current_line # <<>> THEN Append(ls, join(current_line)) ELSE ls
  ELSE LET word == Head(words)
           test_line == join(Append(current_line, word))
           width == get_text_bbox(test_line, f)[1]
       IN IF width < mw
          THEN WrapLoopStrict(Tail(words), ls, Append(current_line, word), f, mw)
          ELSE WrapLoopStrict(Tail(words),
                        IF current_line # <<>>
                        THEN Append(ls, join(current_line)) ELSE ls,
                        <<word>>, f, mw)
wrap_text_Strict(t, f, mw) == WrapLoopStrict(split(t), <<>>, <<>>, f, mw)

wrap_text(t, f, mw) == WrapLoop(split(t), <<>>, <<>>, f, mw)

\* sum([get_text_bbox(line, font)[1] for line in lines]) + (len(lines) - 1) * 15
RECURSIVE SumHeights(_, _)
SumHeights(ls, f) ==
  IF ls = <<>> THEN 0
  ELSE get_text_bbox(Head(ls), f)[2] + SumHeights(Tail(ls), f)
BlockHeight(ls, f) == SumHeights(ls, f) + (Len(ls) - 1) * LineGap

\* ------------------------------------------------ scale_font_size_to_fit
\* the while condition
ScaleCond(th, fs, mh) == th > mh /\ fs > FloorSize

\* lines 124-129: the locals after the first wrap
ScaleEntry(t, f, mw) ==
  LET ls == wrap_text(t, f, mw)
  IN [font |-> f, font_size |-> f.size, lines |-> ls,
      total_height |-> BlockHeight(ls, f)]

\* the loop body shrinking the font without wrapping the text again
ScaleBody_NoRewrap(st, t, mw) ==
  LET fs == st.font_size - ShrinkStep
      f  == load_font(fs)
  IN [font |-> f, font_size |-> fs, lines |-> st.lines,
      total_height |-> BlockHeight(st.lines, f)]

\* lines 133-136: the body of the while loop
ScaleBody(st, t, mw) ==
  LET fs == st.font_size - ShrinkStep
      f  == load_font(fs)
      ls == wrap_text(t, f, mw)
  IN [font |-> f, font_size |-> fs, lines |-> ls,
      total_height |-> BlockHeight(ls, f)]

RECURSIVE ScaleRun(_, _, _, _)
ScaleRun(st, t, mw, mh) ==
  IF ScaleCond(st.total_height, st.font_size, mh)
  THEN ScaleRun(ScaleBody(st, t, mw), t, mw, mh)
  ELSE st

\* scale_font_size_to_fit(text, font, max_width, max_height) -> (font, lines)
scale_font_size_to_fit(t, f, mw, mh) ==
  LET st == ScaleRun(ScaleEntry(t, f, mw), t, mw, mh)
  IN <<st.font, st.lines>>

\* ------------------------------------------------------------------ paths
\* A path is [dir, name]; None and the empty string are two more values a
\* caller can pass as question_template.
QDir == "src/templates/questions"
ADir == "src/templates/answers"
ODir == "elsewhere"
NoneT == [dir |-> "None", name |-> ""]
EmptyStr == [dir |-> "", name |-> ""]
QNames == {"1.jpg", "3.JPG", "notes.txt"}
ANames == {"1.jpg", "2.PNG"}
ONames == {"9.jpeg"}
DirNames(d) == IF d = QDir THEN QNames ELSE IF d = ADir THEN ANames ELSE ONames
FilePaths == {p \in [dir : {QDir, ADir, ODir}, name : QNames \cup ANames \cup ONames] :
                p.name \in DirNames(p.dir)}
\* kinds of file: no file; an image; a file whose header Image.open rejects;
\* a file Image.open accepts and whose pixel data cannot be decoded
Kinds == {"absent", "image", "corrupt", "truncated"}

\* Python truthiness of a str-or-None
Truthy(p) == p # NoneT /\ p # EmptyStr
\* os.path.basename
basename(p) == p.name

\* the extension of a file name and str.lower() on it
ExtOf(n) ==
  CASE n = "1.jpg" -> ".jpg" [] n = "2.PNG" -> ".PNG" [] n = "9.jpeg" -> ".jpeg"
    [] n = "3.JPG" -> ".JPG" [] n = "notes.txt" -> ".txt"
    [] OTHER -> ""
Lower(e) == IF e = ".PNG" THEN ".png" ELSE IF e = ".JPG" THEN ".jpg" ELSE e
HasImageExt(n) == Lower(ExtOf(n)) \in {".png", ".jpg", ".jpeg"}

\* os.listdir(directory), in the listing order of the host
ListingOrder == <<"notes.txt", "1.jpg", "2.PNG", "3.JPG", "9.jpeg">>
listdir(d) ==
  SelectSeq(ListingOrder,
            LAMBDA n : /\ [dir |-> d, name |-> n] \in DOMAIN files
                       /\ files[[dir |-> d, name |-> n]] # "absent")

\* Image.open(path) succeeds: the file is there and its header is an image's
OpensLazily(p) == p \in DOMAIN files /\ files[p] \in {"image", "truncated"}
\* Image.open(path).convert('RGB') succeeds
Decodes(p) == p \in DOMAIN files /\ files[p] = "image"

\* card.size of a template, by file name
ImageSize(p) ==
  CASE p.name = "1.jpg"  -> <<300, 200>>
    [] p.name = "2.PNG"  -> <<140, 90>>
    [] OTHER             -> <<400, 160>>

\* --------------------------------------------------------- _load_templates
RECURSIVE LoadLoop(_, _, _)
LoadLoop(d, names, templates) ==
  IF names = <<>> THEN templates
  ELSE LET file == Head(names)
           template_path == [dir |-> d, name |-> file]
       IN IF HasImageExt(file) /\ OpensLazily(template_path)
          THEN LoadLoop(d, Tail(names), Append(templates, template_path))
          ELSE LoadLoop(d, Tail(names), templates)

\* _load_templates(directory), run when the directories in ds exist
load_templates(d, ds) ==
  IF d \notin ds THEN <<>> ELSE LoadLoop(d, listdir(d), <<>>)

\* ------------------------------------------------------------------ cards
NoFont == [tier |-> "", size |-> 0]
NoCard == [kind |-> "none", template |-> NoneT, size |-> <<0, 0>>, bg |-> "",
           font |-> NoFont, draws |-> <<>>]
Raised == [ok |-> FALSE, card |-> NoCard]

\* the draw.text calls of the line loop: each line centred horizontally
RECURSIVE DrawLines(_, _, _, _, _, _)
DrawLines(ls, f, width, current_y, text_color, shadow) ==
  IF ls = <<>> THEN <<>>
  ELSE LET line == Head(ls)
           bbox == get_text_bbox(line, f)
           text_x == (width - bbox[1]) \div 2
           main == [x |-> text_x, y |-> current_y, s |-> line, font |-> f,
                    fill |-> text_color]
           shade == [x |-> text_x + 2, y |-> current_y + 2, s |-> line,
                     font |-> f, fill |-> "#00000040"]
       IN (IF shadow THEN <<shade, main>> ELSE <<main>>)
          \o DrawLines(Tail(ls), f, width, current_y + bbox[2] + LineGap,
                       text_color, shadow)

\* the overlay with the block started at the top margin
add_text_to_template_TopAligned(template_path, t, text_color) ==
  IF ~Decodes(template_path) THEN Raised
  ELSE LET width == ImageSize(template_path)[1]
           height == ImageSize(template_path)[2]
           fit == scale_font_size_to_fit(t, load_font(TemplateInitSize),
                                         width - (2 * margin),
                                         height - (2 * margin))
       IN [ok |-> TRUE,
           card |-> [kind |-> "template", template |-> template_path,
                     size |-> <<width, height>>, bg |-> "", font |-> fit[1],
                     draws |-> DrawLines(fit[2], fit[1], width, margin,
                                         text_color, TRUE)]]

\* add_text_to_template(template_path, text, text_color)
add_text_to_template(template_path, t, text_color) ==
  IF ~Decodes(template_path) THEN Raised
  ELSE LET width == ImageSize(template_path)[1]
           height == ImageSize(template_path)[2]
           max_text_width == width - (2 * margin)
           max_text_height == height - (2 * margin)
           fit == scale_font_size_to_fit(t, load_font(TemplateInitSize),
                                         max_text_width, max_text_height)
           f == fit[1]
           ls == fit[2]
           th == BlockHeight(ls, f)
           start_y == (height - th) \div 2
       IN [ok |-> TRUE,
           card |-> [kind |-> "template", template |-> template_path,
                     size |-> <<width, height>>, bg |-> "", font |-> f,
                     draws |-> DrawLines(ls, f, width, start_y, text_color, TRUE)]]

\* the fallback card with the text fitted to the canvas
create_simple_card_Fitted(t, label, bg_color, text_color) ==
  LET fit == scale_font_size_to_fit(t, load_font(SimpleInitSize),
                                    SimpleMaxWidth, SimpleHeight)
      start_y == (SimpleHeight - BlockHeight(fit[2], fit[1])) \div 2
  IN [ok |-> TRUE,
      card |-> [kind |-> "simple", template |-> NoneT,
                size |-> <<SimpleWidth, SimpleHeight>>, bg |-> bg_color,
                font |-> fit[1],
                draws |-> <<[x |-> LabelPos, y |-> LabelPos, s |-> label,
                             font |-> load_font(LabelFontSize),
                             fill |-> text_color]>>
                          \o DrawLines(fit[2], fit[1], SimpleWidth, start_y,
                                       text_color, FALSE)]]

\* _create_simple_card(text, label, bg_color, text_color)
create_simple_card(t, label, bg_color, text_color) ==
  LET f == load_font(SimpleInitSize)
      label_font == load_font(LabelFontSize)
      ls == wrap_text(t, f, SimpleMaxWidth)
      th == BlockHeight(ls, f)
      start_y == (SimpleHeight - th) \div 2
  IN [ok |-> TRUE,
      card |-> [kind |-> "simple", template |-> NoneT,
                size |-> <<SimpleWidth, SimpleHeight>>, bg |-> bg_color,
                font |-> f,
                draws |-> <<[x |-> LabelPos, y |-> LabelPos, s |-> label,
                             font |-> label_font, fill |-> text_color]>>
                          \o DrawLines(ls, f, SimpleWidth, start_y, text_color,
                                       FALSE)]]

\* --------------------------------------------------- create_flashcard_pair
\* lines 188-191: the first answer template with the question's file name
RECURSIVE MatchLoop(_, _)
MatchLoop(tpls, question_filename) ==
  IF tpls = <<>> THEN NoneT
  ELSE IF basename(Head(tpls)) = question_filename THEN Head(tpls)
  ELSE MatchLoop(Tail(tpls), question_filename)

\* the same search comparing whole paths instead of base names
RECURSIVE MatchLoopFullPath(_, _)
MatchLoopFullPath(tpls, qt) ==
  IF tpls = <<>> THEN NoneT
  ELSE IF Head(tpls) = qt THEN Head(tpls)
  ELSE MatchLoopFullPath(Tail(tpls), qt)
SelectAnswer_FullPath(qt, r) ==
  IF Truthy(qt) /\ answer_templates # <<>>
  THEN LET found == MatchLoopFullPath(answer_templates, qt)
       IN IF ~Truthy(found)
          THEN [template |-> answer_templates[r], random |-> TRUE]
          ELSE [template |-> found, random |-> FALSE]
  ELSE [template |-> NoneT, random |-> FALSE]

\* the selection without the search: always random.choice
SelectAnswer_AlwaysRandom(qt, r) ==
  IF Truthy(qt) /\ answer_templates # <<>>
  THEN [template |-> answer_templates[r], random |-> TRUE]
  ELSE [template |-> NoneT, random |-> FALSE]

\* the selection without the random fallback: no match, no template
SelectAnswer_NoRandom(qt, r) ==
  IF Truthy(qt) /\ answer_templates # <<>>
  THEN [template |-> MatchLoop(answer_templates, basename(qt)), random |-> FALSE]
  ELSE [template |-> NoneT, random |-> FALSE]

\* the selection drawing an answer template also when no question template
\* was given
SelectAnswer_WithoutQuestion(qt, r) ==
  IF answer_templates # <<>>
  THEN LET found == IF Truthy(qt)
                    THEN MatchLoop(answer_templates, basename(qt)) ELSE NoneT
       IN IF ~Truthy(found)
          THEN [template |-> answer_templates[r], random |-> TRUE]
          ELSE [template |-> found, random |-> FALSE]
  ELSE [template |-> NoneT, random |-> FALSE]

\* lines 182-198: the answer template; r is what random.choice returns when
\* it is called
SelectAnswer(qt, r) ==
  IF Truthy(qt) /\ answer_templates # <<>>
  THEN LET found == MatchLoop(answer_templates, basename(qt))
       IN IF ~Truthy(found)
          THEN [template |-> answer_templates[r], random |-> TRUE]
          ELSE [template |-> found, random |-> FALSE]
  ELSE [template |-> NoneT, random |-> FALSE]

\* the front falling back to the solid card also when the question-template
\* collection is empty
FrontCard_ByCollection(qt, question) ==
  IF ~Truthy(qt) \/ question_templates = <<>>
  THEN create_simple_card(question, "QUESTION", "#4A90E2", "#FFFFFF")
  ELSE add_text_to_template(qt, question, "#FFFFFF")

\* lines 201-205: the front
FrontCard(qt, question) ==
  IF ~Truthy(qt)
  THEN create_simple_card(question, "QUESTION", "#4A90E2", "#FFFFFF")
  ELSE add_text_to_template(qt, question, "#FFFFFF")

\* the back labelled like the front
BackCard_QuestionLabel(answer_template, answer) ==
  IF ~Truthy(answer_template)
  THEN create_simple_card(answer, "QUESTION", "#4A90E2", "#FFFFFF")
  ELSE add_text_to_template(answer_template, answer, "#FFFFFF")

\* the back catching a failed template and drawing the solid card instead
BackCard_CatchFallback(answer_template, answer) ==
  IF ~Truthy(answer_template) \/ ~Decodes(answer_template)
  THEN create_simple_card(answer, "ANSWER", "#27AE60", "#FFFFFF")
  ELSE add_text_to_template(answer_template, answer, "#FFFFFF")

\* the back without the solid-colour fallback
BackCard_NoFallback(answer_template, answer) ==
  add_text_to_template(answer_template, answer, "#FFFFFF")

\* lines 207-211: the back
BackCard(answer_template, answer) ==
  IF ~Truthy(answer_template)
  THEN create_simple_card(answer, "ANSWER", "#27AE60", "#FFFFFF")
  ELSE add_text_to_template(answer_template, answer, "#FFFFFF")

NoCall == [called |-> FALSE, question |-> <<>>, answer |-> <<>>,
           question_template |-> NoneT, answer_template |-> NoneT,
           random |-> FALSE, status |-> "none", front |-> NoCard,
           back |-> NoCard]

\* create_flashcard_pair(question, answer, question_template): the record of
\* the call; an exception in the front leaves the back unrendered
CallOutcome(question, answer, qt, r) ==
  LET sel == SelectAnswer(qt, r)
      front == FrontCard(qt, question)
      back == BackCard(sel.template, answer)
  IN [called |-> TRUE, question |-> question, answer |-> answer,
      question_template |-> qt, answer_template |-> sel.template,
      random |-> sel.random,
      status |-> IF front.ok /\ back.ok THEN "returned" ELSE "raised",
      front |-> front.card,
      back |-> IF front.ok THEN back.card ELSE NoCard]

\* ------------------------------------------------------------ environment
Threads == {"t1", "t2"}
NoLocals == [pc |-> "idle", question |-> <<>>, answer |-> <<>>,
             question_template |-> NoneT, answer_template |-> NoneT,
             random |-> FALSE, pick |-> 0, front |-> NoCard, back |-> NoCard]
NoConcept == ""
CallsIdle == calls = [t \in Threads |-> NoLocals]
MapIdle ==
  /\ mapPc = "idle"
  /\ concepts = <<>>
  /\ relations = <<>>
  /\ min_connections = 0
  /\ edge_weights = <<>>
  /\ concept_connections = <<>>
  /\ significant_concepts = {}
  /\ root_node = NoConcept
  /\ levels = <<>>
  /\ current_level = <<>>
  /\ visited = {}
  /\ max_level = 0
  /\ remaining_concepts = {}
PdfIdle ==
  /\ pdfPc = "idle"
  /\ uploads = <<>>
  /\ upload_i = 0
  /\ temp_exists = FALSE
  /\ temp_files = {}
  /\ documents = <<>>
ParseIdle ==
  /\ parsePc = "idle"
  /\ response = <<>>
  /\ num_cards = 0
  /\ qa_pairs = <<>>
NoQuestion == <<>>
\* lines 99-118, and the widgets' defaults
AppIdle ==
  /\ selected_page = "PDF Chat"
  /\ uploaded_files = FALSE
  /\ files_processed = FALSE
  /\ vectorstore = FALSE
  /\ messages = 0
  /\ qa_dict = <<>>
  /\ idx = 0
  /\ show_front = TRUE
  /\ flashcards_generated = FALSE
  /\ generations = 0
  /\ clicked = "none"
  /\ current_q = NoQuestion
SideIdle == PdfIdle /\ ParseIdle /\ AppIdle
AuxIdle == CallsIdle /\ MapIdle /\ SideIdle

QATexts == {<<"a", " ", "b">>, <<"b", "b", " ", " ", "a", "a">>}
\* a text of LongWords one-letter words
LongText == [i \in 1..(2 * LongWords - 1) |-> IF i % 2 = 1 THEN "b" ELSE " "]
LongTexts == {<<"a", " ", "b">>, LongText}
\* texts without a word, and one with
BlankTexts == {<<>>, <<" ", " ">>, <<"a">>}
\* the files the renderer's calls are exercised on
CorePaths == {p \in FilePaths : p.name \in {"1.jpg", "2.PNG", "9.jpeg"}}
TemplateArgs == {NoneT, EmptyStr} \cup {p \in CorePaths : p.dir # ADir}
\* the defaults of __init__'s parameters (line 8-9), relative paths
DefaultQDir == "templates/questions"
DefaultADir == "templates/answers"
NoArgs == [question_templates_dir |-> "", answer_templates_dir |-> ""]

FitIdle ==
  /\ fitPc = "idle"
  /\ text = <<>>
  /\ max_width = 0
  /\ max_height = 0
  /\ font = NoFont
  /\ font_size = 0
  /\ lines = <<>>
  /\ total_height = 0
  /\ init_size = 0
  /\ iters = 0

GenIdle ==
  /\ files = [p \in FilePaths |-> "absent"]
  /\ dirs = {}
  /\ genPc = "idle"
  /\ question_templates = <<>>
  /\ answer_templates = <<>>
  /\ margin = 0
  /\ last = NoCall
  /\ prev = NoCall
  /\ ctor = NoArgs

\* the hosts: a font tier, the directories and the files in them; a file
\* lives in a directory that exists
\* only the files in paths may be there
GenEnvOn(tiers, kinds, paths) ==
  /\ fontTier \in tiers
  /\ files \in [FilePaths -> kinds \cup {"absent"}]
  /\ \A p \in FilePaths \ paths : files[p] = "absent"
  /\ dirs \in SUBSET {QDir, ADir}
  /\ \A p \in FilePaths : (p.dir \in {QDir, ADir} \ dirs) => files[p] = "absent"
  /\ genPc = "new"
  /\ question_templates = <<>>
  /\ answer_templates = <<>>
  /\ margin = 0
  /\ last = NoCall
  /\ prev = NoCall
  /\ ctor = NoArgs
  /\ FitIdle
  /\ AuxIdle

GenEnv(tiers, kinds) == GenEnvOn(tiers, kinds, CorePaths)

\* __init__ (lines 8-43): the two directories are fixed below the project
\* root whatever the arguments say; makedirs creates them; then both scans
ConstructBody(question_templates_dir, answer_templates_dir) ==
  /\ genPc = "new"
  /\ LET ds == dirs \cup {QDir, ADir}
     IN /\ dirs' = ds
        /\ question_templates' = load_templates(QDir, ds)
        /\ answer_templates' = load_templates(ADir, ds)
  /\ margin' = MarginPx
  /\ genPc' = "ready"
  /\ ctor' = [question_templates_dir |-> question_templates_dir,
              answer_templates_dir |-> answer_templates_dir]
  /\ UNCHANGED <<fontTier, files, last, prev>>
  /\ UNCHANGED fitVars
  /\ UNCHANGED auxVars

\* FlashcardGenerator(), as the application constructs it
Construct == ConstructBody(DefaultQDir, DefaultADir)

\* FlashcardGenerator(question_templates_dir, answer_templates_dir)
ConstructWith ==
  \E question_templates_dir \in {QDir, ODir, DefaultQDir},
     answer_templates_dir \in {ADir, ODir, DefaultADir} :
    ConstructBody(question_templates_dir, answer_templates_dir)

\* one call of create_flashcard_pair, whole
CreatePairCallOn(texts) ==
  \E question \in texts, answer \in texts, qt \in TemplateArgs :
    \E r \in 1..(IF answer_templates = <<>> THEN 1 ELSE Len(answer_templates)) :
      last' = CallOutcome(question, answer, qt, r)
CreatePairCall == CreatePairCallOn(QATexts)

\* the call taking the answer template it used out of the collection
CreateFlashcardPair_Consuming ==
  /\ genPc = "ready"
  /\ CreatePairCall
  /\ answer_templates' =
       SelectSeq(answer_templates, LAMBDA p : p # last'.answer_template)
  /\ UNCHANGED <<fontTier, files, dirs, genPc, question_templates, margin,
                 prev, ctor>>
  /\ UNCHANGED fitVars
  /\ UNCHANGED auxVars

CreateFlashcardPair ==
  /\ genPc = "ready"
  /\ CreatePairCall
  /\ UNCHANGED <<fontTier, files, dirs, genPc, question_templates,
                 answer_templates, margin, prev, ctor>>
  /\ UNCHANGED fitVars
  /\ UNCHANGED auxVars

\* the same call with the call before it remembered
CreateFlashcardPairAgain ==
  /\ genPc = "ready"
  /\ CreatePairCall
  /\ prev' = last
  /\ UNCHANGED <<fontTier, files, dirs, genPc, question_templates,
                 answer_templates, margin, ctor>>
  /\ UNCHANGED fitVars
  /\ UNCHANGED auxVars

\* a call whose question or answer may be a text of LongWords words
CreateFlashcardPairLong ==
  /\ genPc = "ready"
  /\ CreatePairCallOn(LongTexts)
  /\ UNCHANGED <<fontTier, files, dirs, genPc, question_templates,
                 answer_templates, margin, prev, ctor>>
  /\ UNCHANGED fitVars
  /\ UNCHANGED auxVars

\* a call whose question or answer may be empty or blank
CreateFlashcardPairBlank ==
  /\ genPc = "ready"
  /\ CreatePairCallOn(BlankTexts)
  /\ UNCHANGED <<fontTier, files, dirs, genPc, question_templates,
                 answer_templates, margin, prev, ctor>>
  /\ UNCHANGED fitVars
  /\ UNCHANGED auxVars

Init == GenEnv(Tiers, Kinds)
Next == Construct \/ CreateFlashcardPair
Spec == Init /\ [][Next]_vars

\* the renderer called with long texts
LongInit == GenEnv(Tiers, {"image"})
LongNext == Construct \/ CreateFlashcardPairLong
SpecLong == LongInit /\ [][LongNext]_vars

\* the renderer called with empty and blank texts
BlankInit == GenEnv(Tiers, {"image"})
BlankNext == Construct \/ CreateFlashcardPairBlank
SpecBlank == BlankInit /\ [][BlankNext]_vars

\* construction alone, over every kind of file and every argument
LoadInit == GenEnvOn({"dejavu"}, Kinds, FilePaths)
LoadNext == ConstructWith
SpecLoad == LoadInit /\ [][LoadNext]_vars

\* ------------------------------------------- concurrent calls, statement
\* by statement; every name the method assigns is a local of the call
\* line 207: the call reads its own local answer_template
ReadAnswerTemplate_Other(t) ==
  calls[CHOOSE u \in Threads : u # t].answer_template
ReadAnswerTemplate(t) == calls[t].answer_template

\* line 180: the call is entered with its arguments
Begin(t) ==
  /\ genPc = "ready"
  /\ calls[t].pc = "idle"
  /\ \E question \in QATexts, answer \in QATexts, qt \in TemplateArgs :
       calls' = [calls EXCEPT ![t] =
                   [@ EXCEPT !.pc = "select", !.question = question,
                             !.answer = answer, !.question_template = qt]]
  /\ UNCHANGED <<fontTier, fitVars, genVars, mapVars, sideVars>>

\* lines 182-198
StepSelect(t) ==
  /\ calls[t].pc = "select"
  /\ \E r \in 1..(IF answer_templates = <<>> THEN 1 ELSE Len(answer_templates)) :
       LET sel == SelectAnswer(calls[t].question_template, r)
       IN calls' = [calls EXCEPT ![t] =
                      [@ EXCEPT !.pc = "front", !.answer_template = sel.template,
                                !.random = sel.random,
                                !.pick = IF sel.random THEN r ELSE 1]]
  /\ UNCHANGED <<fontTier, fitVars, genVars, mapVars, sideVars>>

\* lines 201-205
StepFront(t) ==
  /\ calls[t].pc = "front"
  /\ LET front == FrontCard(calls[t].question_template, calls[t].question)
     IN calls' = [calls EXCEPT ![t] =
                    [@ EXCEPT !.pc = IF front.ok THEN "back" ELSE "raised",
                              !.front = front.card]]
  /\ UNCHANGED <<fontTier, fitVars, genVars, mapVars, sideVars>>

\* lines 207-213
StepBack(t) ==
  /\ calls[t].pc = "back"
  /\ LET back == BackCard(ReadAnswerTemplate(t), calls[t].answer)
     IN calls' = [calls EXCEPT ![t] =
                    [@ EXCEPT !.pc = IF back.ok THEN "returned" ELSE "raised",
                              !.back = back.card]]
  /\ UNCHANGED <<fontTier, fitVars, genVars, mapVars, sideVars>>

ConcInit == GenEnv({"dejavu"}, {"image"})
ConcNext ==
  \/ Construct
  \/ \E t \in Threads : Begin(t) \/ StepSelect(t) \/ StepFront(t) \/ StepBack(t)
SpecConc == ConcInit /\ [][ConcNext]_vars

TwiceInit == GenEnv({"dejavu"}, {"image"})
TwiceNext == Construct \/ CreateFlashcardPairAgain
SpecTwice == TwiceInit /\ [][TwiceNext]_vars

InitSizes == (FloorSize .. MaxInitSize) \cup {TemplateInitSize}
MaxWidths == {0, 60, 200}
MaxHeights == {0, 30, 60}

FitInit ==
  /\ fontTier \in Tiers
  /\ fitPc = "call"
  /\ text \in Texts
  /\ max_width \in MaxWidths
  /\ max_height \in MaxHeights
  /\ \E s \in InitSizes : font = load_font(s)
  /\ font_size = 0
  /\ lines = <<>>
  /\ total_height = 0
  /\ init_size = font.size
  /\ iters = 0
  /\ GenIdle
  /\ AuxIdle

\* lines 124-129: entry, first wrap
ScaleEnter ==
  /\ fitPc = "call"
  /\ LET st == ScaleEntry(text, font, max_width)
     IN /\ font_size' = st.font_size
        /\ lines' = st.lines
        /\ total_height' = st.total_height
  /\ fitPc' = "loop"
  /\ UNCHANGED <<fontTier, text, max_width, max_height, font, init_size, iters>>
  /\ UNCHANGED genVars
  /\ UNCHANGED auxVars

\* lines 132-136: one iteration of the while loop
ScaleStep ==
  /\ fitPc = "loop"
  /\ ScaleCond(total_height, font_size, max_height)
  /\ LET st == ScaleBody([font |-> font, font_size |-> font_size,
                           lines |-> lines, total_height |-> total_height],
                          text, max_width)
     IN /\ font_size' = st.font_size
        /\ font' = st.font
        /\ lines' = st.lines
        /\ total_height' = st.total_height
  /\ iters' = iters + 1
  /\ UNCHANGED <<fontTier, fitPc, text, max_width, max_height, init_size>>
  /\ UNCHANGED genVars
  /\ UNCHANGED auxVars

\* line 138: return font, lines
ScaleReturn ==
  /\ fitPc = "loop"
  /\ ~ScaleCond(total_height, font_size, max_height)
  /\ fitPc' = "done"
  /\ UNCHANGED <<fontTier, text, max_width, max_height, font, font_size, lines,
                 total_height, init_size, iters>>
  /\ UNCHANGED genVars
  /\ UNCHANGED auxVars

FitNext == ScaleEnter \/ ScaleStep \/ ScaleReturn
SpecFit == FitInit /\ [][FitNext]_vars

\* ------------------------------------------------------ create_memory_map
Max2(a, b) == IF a >= b THEN a ELSE b
Min2(a, b) == IF a <= b THEN a ELSE b
Keys(d) == {d[i][1] : i \in 1..Len(d)}
Reverse(q) == [i \in 1..Len(q) |-> q[Len(q) + 1 - i]]

\* d[k] += w on a defaultdict(int): a new key goes to the end
AddCount(d, k, w) ==
  IF k \in Keys(d)
  THEN [i \in 1..Len(d) |-> IF d[i][1] = k THEN <<k, d[i][2] + w>> ELSE d[i]]
  ELSE Append(d, <<k, w>>)

\* lines 152-154
RECURSIVE EdgeWeightsLoop(_, _)
EdgeWeightsLoop(rels, d) ==
  IF rels = <<>> THEN d
  ELSE EdgeWeightsLoop(Tail(rels), AddCount(d, Head(rels), 1))

\* lines 157-160
RECURSIVE ConnectionsLoop(_, _)
ConnectionsLoop(ew, d) ==
  IF ew = <<>> THEN d
  ELSE LET source == Head(ew)[1][1]
           target == Head(ew)[1][2]
           weight == Head(ew)[2]
       IN ConnectionsLoop(Tail(ew),
                          AddCount(AddCount(d, source, weight), target, weight))

\* lines 163-165
RECURSIVE IsolatedLoop(_, _)
IsolatedLoop(cs, d) ==
  IF cs = <<>> THEN d
  ELSE IsolatedLoop(Tail(cs),
                    IF Head(cs) \in Keys(d) THEN d ELSE Append(d, <<Head(cs), 1>>))

\* lines 168-174 and 195-197; the slice [:max(5, len(sorted_concepts))] is
\* never shorter than the sorted list, whose order then does not matter
Significant(d, cs, min) ==
  LET meeting == {d[i][1] : i \in {j \in 1..Len(d) : d[j][2] >= min}}
      n == Max2(MinShown, Len(d))
      sig == IF Cardinality(meeting) < MinShown
             THEN {d[i][1] : i \in 1..Min2(n, Len(d))}
             ELSE meeting
  IN IF sig = {} /\ cs # <<>>
     THEN {cs[i] : i \in 1..Min2(FirstFew, Len(cs))}
     ELSE sig

\* line 205: max() keeps the first of the items with the greatest count
RootOf(d) ==
  d[CHOOSE i \in 1..Len(d) :
      /\ \A j \in 1..Len(d) : d[j][2] <= d[i][2]
      /\ \A j \in 1..(i - 1) : d[j][2] < d[i][2]][1]

\* the pass following a relation only from its source to its target
NeighborOf_Directed(node, edge) ==
  IF edge[1] = node THEN edge[2] ELSE NoConcept

\* line 224; None is NoConcept, which `if neighbor` rejects like None
NeighborOf(node, edge) ==
  IF edge[1] = node THEN edge[2]
  ELSE IF edge[2] = node THEN edge[1]
  ELSE NoConcept

\* lines 223-230, for one node of current_level
RECURSIVE EdgeLoop(_, _, _)
EdgeLoop(node, ew, st) ==
  IF ew = <<>> THEN st
  ELSE LET neighbor == NeighborOf(node, Head(ew)[1])
       IN IF neighbor # NoConcept /\ neighbor \in st.remaining_concepts
          THEN EdgeLoop(node, Tail(ew),
                 [levels |-> (neighbor :> (st.levels[node] + 1)) @@ st.levels,
                  max_level |-> Max2(st.max_level, st.levels[node] + 1),
                  next_level |-> Append(st.next_level, neighbor),
                  visited |-> st.visited \cup {neighbor},
                  remaining_concepts |-> st.remaining_concepts \ {neighbor}])
          ELSE EdgeLoop(node, Tail(ew), st)

\* lines 221-230
RECURSIVE NodeLoop(_, _, _)
NodeLoop(nodes, ew, st) ==
  IF nodes = <<>> THEN st
  ELSE NodeLoop(Tail(nodes), ew, EdgeLoop(Head(nodes), ew, st))

\* the relations a text may give: pairs of concepts of one sentence, a pair
\* in both orders and a concept paired with itself among them
CandidateRelations ==
  << <<"a", "b">>, <<"b", "a">>, <<"a", "c">>, <<"b", "c">>, <<"a", "d">>,
     <<"c", "d">>, <<"d", "e">>, <<"e", "e">>, <<"d", "n">>, <<"n", "f">>,
     <<"f", "g">>, <<"g", "f">> >>
ConceptOrder == <<"a", "b", "c", "d", "e", "n", "f", "g", "z">>
Unrelated == "z"
Picked(q, keep) == SelectSeq(q, LAMBDA x : x \in keep)
Endpoints(rels) ==
  {rels[i][1] : i \in 1..Len(rels)} \cup {rels[i][2] : i \in 1..Len(rels)}

\* what extract_concepts_and_relations returned (line 146): list(set(...))
\* gives the relations and the concepts in an order of its own; every
\* endpoint of a relation is a concept
MapInit ==
  /\ fontTier = "dejavu"
  /\ FitIdle
  /\ GenIdle
  /\ CallsIdle
  /\ SideIdle
  /\ mapPc = "call"
  /\ \E keep \in SUBSET {CandidateRelations[i] : i \in 1..Len(CandidateRelations)},
        alone \in SUBSET {Unrelated}, backwards \in BOOLEAN :
       LET rels == Picked(CandidateRelations, keep)
           cs == Picked(ConceptOrder, Endpoints(rels) \cup alone)
       IN /\ relations = (IF backwards THEN Reverse(rels) ELSE rels)
          /\ concepts = (IF backwards THEN Reverse(cs) ELSE cs)
  /\ min_connections \in 1..MaxMinConnections
  /\ edge_weights = <<>>
  /\ concept_connections = <<>>
  /\ significant_concepts = {}
  /\ root_node = NoConcept
  /\ levels = <<>>
  /\ current_level = <<>>
  /\ visited = {}
  /\ max_level = 0
  /\ remaining_concepts = {}

\* lines 146-217: up to the while loop, or the return of None on line 201
MapStart ==
  /\ mapPc = "call"
  /\ LET ew == EdgeWeightsLoop(relations, <<>>)
         cc == IsolatedLoop(concepts, ConnectionsLoop(ew, <<>>))
         sig == Significant(cc, concepts, min_connections)
     IN /\ edge_weights' = ew
        /\ concept_connections' = cc
        /\ significant_concepts' = sig
        /\ IF concepts = <<>>
           THEN /\ mapPc' = "none"
                /\ UNCHANGED <<root_node, levels, current_level, visited,
                               remaining_concepts>>
           ELSE /\ mapPc' = "loop"
                /\ root_node' = RootOf(cc)
                /\ levels' = (RootOf(cc) :> 0)
                /\ current_level' = <<RootOf(cc)>>
                /\ visited' = {RootOf(cc)}
                /\ remaining_concepts' = sig \ {RootOf(cc)}
  /\ UNCHANGED <<concepts, relations, min_connections, max_level>>
  /\ UNCHANGED <<fontTier, fitVars, genVars, calls, sideVars>>

\* lines 219-231: one iteration of the while loop
LevelStep ==
  /\ mapPc = "loop"
  /\ current_level # <<>> /\ remaining_concepts # {}
  /\ LET st == NodeLoop(current_level, edge_weights,
                        [levels |-> levels, max_level |-> max_level,
                         next_level |-> <<>>, visited |-> visited,
                         remaining_concepts |-> remaining_concepts])
     IN /\ levels' = st.levels
        /\ max_level' = st.max_level
        /\ visited' = st.visited
        /\ remaining_concepts' = st.remaining_concepts
        /\ current_level' = st.next_level
  /\ UNCHANGED <<mapPc, concepts, relations, min_connections, edge_weights,
                 concept_connections, significant_concepts, root_node>>
  /\ UNCHANGED <<fontTier, fitVars, genVars, calls, sideVars>>

\* lines 234-236: the loop is left, what remains goes one level further
LevelsDone ==
  /\ mapPc = "loop"
  /\ ~(current_level # <<>> /\ remaining_concepts # {})
  /\ levels' = [c \in remaining_concepts |-> max_level + 1] @@ levels
  /\ mapPc' = "done"
  /\ UNCHANGED <<concepts, relations, min_connections, edge_weights,
                 concept_connections, significant_concepts, root_node,
                 current_level, visited, max_level, remaining_concepts>>
  /\ UNCHANGED <<fontTier, fitVars, genVars, calls, sideVars>>

MapNext == MapStart \/ LevelStep \/ LevelsDone
SpecMap == MapInit /\ [][MapNext]_vars

\* --------------------------------------------------------- load_pdf_files
\* an uploaded file: its name and whether PyPDFLoader can read its bytes
UploadNames == {"a.pdf", "b.pdf"}
UploadKinds == {"pdf", "garbage"}
Uploads == [name : UploadNames, kind : UploadKinds]
RECURSIVE UploadLists(_)
UploadLists(n) ==
  IF n = 0 THEN {<<>>}
  ELSE UploadLists(n - 1)
       \cup {Append(q, u) : q \in {r \in UploadLists(n - 1) : Len(r) = n - 1},
                            u \in Uploads}
\* a file found in ./temp_uploads that this call did not write
StaleName == "old.pdf"

\* the call is entered (line 6) on a working directory where temp_uploads
\* is absent, empty, or holds a file
PdfInit ==
  /\ fontTier = "dejavu"
  /\ FitIdle
  /\ GenIdle
  /\ CallsIdle
  /\ MapIdle
  /\ ParseIdle
  /\ AppIdle
  /\ pdfPc = "call"
  /\ uploads \in UploadLists(MaxUploads)
  /\ upload_i = 0
  /\ temp_exists \in BOOLEAN
  /\ temp_files \in {{}, {StaleName}}
  /\ temp_files # {} => temp_exists
  /\ documents = <<>>

PdfFrame ==
  UNCHANGED <<fontTier, fitVars, genVars, calls, mapVars, parseVars, appVars>>

\* lines 8-13: os.makedirs when the directory is missing
PdfEnter ==
  /\ pdfPc = "call"
  /\ temp_exists' = TRUE
  /\ upload_i' = 1
  /\ pdfPc' = IF uploads = <<>> THEN "finally" ELSE "save"
  /\ UNCHANGED <<uploads, temp_files, documents>>
  /\ PdfFrame

\* lines 18-22: the copy is written; open() or write() may raise, and a
\* write that raises leaves the file it opened
PdfSave ==
  /\ pdfPc = "save"
  /\ \E outcome \in {"written", "open raises", "write raises"} :
       /\ temp_files' = IF outcome = "open raises" THEN temp_files
                        ELSE temp_files \cup {uploads[upload_i].name}
       /\ pdfPc' = IF outcome = "written" THEN "load" ELSE "raising"
  /\ UNCHANGED <<uploads, upload_i, temp_exists, documents>>
  /\ PdfFrame

\* lines 25-26: PyPDFLoader(temp_path).load() raises on bytes that are no PDF
PdfLoad ==
  /\ pdfPc = "load"
  /\ IF uploads[upload_i].kind = "pdf"
     THEN /\ documents' = Append(documents, uploads[upload_i].name)
          /\ pdfPc' = "remove"
     ELSE /\ documents' = documents
          /\ pdfPc' = "raising"
  /\ UNCHANGED <<uploads, upload_i, temp_exists, temp_files>>
  /\ PdfFrame

\* line 29, then the next turn of the loop
PdfRemove ==
  /\ pdfPc = "remove"
  /\ temp_files' = temp_files \ {uploads[upload_i].name}
  /\ upload_i' = upload_i + 1
  /\ pdfPc' = IF upload_i < Len(uploads) THEN "save" ELSE "finally"
  /\ UNCHANGED <<uploads, temp_exists, documents>>
  /\ PdfFrame

\* lines 33-37: os.rmdir raises on a directory that is not empty, and the
\* except clause swallows it
rmdir(exists, names) ==
  IF exists /\ names = {} THEN [exists |-> FALSE, names |-> {}]
  ELSE [exists |-> exists, names |-> names]

\* lines 31-39: the finally block, reached by the loop's end or by an
\* exception, then the return or the exception going on
PdfFinally ==
  /\ pdfPc \in {"finally", "raising"}
  /\ temp_exists' = rmdir(temp_exists, temp_files).exists
  /\ temp_files' = rmdir(temp_exists, temp_files).names
  /\ pdfPc' = IF pdfPc = "finally" THEN "returned" ELSE "raised"
  /\ UNCHANGED <<uploads, upload_i, documents>>
  /\ PdfFrame

PdfNext == PdfEnter \/ PdfSave \/ PdfLoad \/ PdfRemove \/ PdfFinally
SpecPdf == PdfInit /\ [][PdfNext]_vars

\* ------------------------------------------- st_app.py: QA pair parsing
\* a JSON value: a string s, a value of another type, or no such member
JStr(s) == [t |-> "str", s |-> s]
JOther == [t |-> "other", s |-> <<>>]
JAbsent == [t |-> "absent", s |-> <<>>]

\* a fragment matched by {[^}]+}: "object" is a JSON object with these
\* question and answer members, "escaped" one whose strings hold \" ,
\* "broken" is no JSON, "deep" nests arrays beyond the recursion limit
Frag(syntax, question, answer) ==
  [syntax |-> syntax, question |-> question, answer |-> answer]
Fragments ==
  { Frag("object", JStr(<<"q">>), JStr(<<"a">>)),
    Frag("object", JStr(<<" ", "r", "?", " ">>), JStr(<<" ", "b", " ">>)),
    Frag("object", JStr(<<"s", "?">>), JStr(<<"a">>)),
    Frag("object", JStr(<<"q", "?">>), JStr(<<" ", "b", " ">>)),
    Frag("object", JStr(<<"t">>), JStr(<<"a">>)),
    Frag("object", JStr(<<" ">>), JStr(<<"a">>)),
    Frag("object", JStr(<<"r">>), JStr(<<" ">>)),
    Frag("object", JOther, JStr(<<"a">>)),
    Frag("object", JStr(<<"q">>), JAbsent),
    Frag("escaped", JStr(<<"q">>), JStr(<<"a">>)),
    Frag("broken", JAbsent, JAbsent),
    Frag("deep", JAbsent, JAbsent) }
RECURSIVE Responses(_)
Responses(n) ==
  IF n = 0 THEN {<<>>}
  ELSE Responses(n - 1)
       \cup {Append(q, f) : q \in {r \in Responses(n - 1) : Len(r) = n - 1},
                            f \in Fragments}

\* str.strip()
RECURSIVE lstrip(_)
lstrip(s) == IF s # <<>> /\ Head(s) = " " THEN lstrip(Tail(s)) ELSE s
RECURSIVE rstrip(_)
rstrip(s) ==
  IF s # <<>> /\ s[Len(s)] = " " THEN rstrip(SubSeq(s, 1, Len(s) - 1)) ELSE s
strip(s) == rstrip(lstrip(s))
\* str.endswith('?')
endswith_mark(s) == s # <<>> /\ s[Len(s)] = "?"

\* line 248: with \" replaced by " the strings of the fragment end early
\* and what follows them is no JSON
Unescape(f) == IF f.syntax = "escaped" THEN [f EXCEPT !.syntax = "broken"] ELSE f

\* line 250: json.loads
json_loads(f) ==
  CASE f.syntax = "object" ->
         [raised |-> "", question |-> f.question, answer |-> f.answer]
    [] f.syntax = "deep" ->
         [raised |-> "RecursionError", question |-> JAbsent, answer |-> JAbsent]
    [] OTHER ->
         [raised |-> "JSONDecodeError", question |-> JAbsent, answer |-> JAbsent]

\* lines 251-255
Accepted(qa) ==
  /\ qa.question.t # "absent" /\ qa.answer.t # "absent"
  /\ qa.question.t = "str" /\ qa.answer.t = "str"
  /\ Len(strip(qa.question.s)) > 0
  /\ Len(strip(qa.answer.s)) > 0

\* lines 258-261
CleanQuestion(q) ==
  LET question == strip(q)
  IN IF ~endswith_mark(question) THEN Append(question, "?") ELSE question

\* d[k] = v on a dict: a key already there keeps its place
Put(d, k, v) ==
  IF \E i \in 1..Len(d) : d[i][1] = k
  THEN [i \in 1..Len(d) |-> IF d[i][1] = k THEN <<k, v>> ELSE d[i]]
  ELSE Append(d, <<k, v>>)

\* lines 244-275: the loop over the matches; JSONDecodeError goes on with
\* the next match, any other exception leaves the loop for line 274
RECURSIVE ParseLoop(_, _, _)
ParseLoop(matches, pairs, n) ==
  IF matches = <<>> THEN pairs
  ELSE LET qa == json_loads(Unescape(Head(matches)))
       IN IF qa.raised = "JSONDecodeError" THEN ParseLoop(Tail(matches), pairs, n)
          ELSE IF qa.raised # "" THEN pairs
          ELSE IF Accepted(qa)
          THEN LET now == Put(pairs, CleanQuestion(qa.question.s),
                              strip(qa.answer.s))
               IN IF Len(now) >= n THEN now
                  ELSE ParseLoop(Tail(matches), now, n)
          ELSE ParseLoop(Tail(matches), pairs, n)

ParseInit ==
  /\ fontTier = "dejavu"
  /\ FitIdle
  /\ GenIdle
  /\ CallsIdle
  /\ MapIdle
  /\ PdfIdle
  /\ AppIdle
  /\ parsePc = "call"
  /\ response \in Responses(MaxFragments)
  /\ num_cards \in MinNumCards..MaxNumCards
  /\ qa_pairs = <<>>

\* lines 235-275
ParseResponse ==
  /\ parsePc = "call"
  /\ qa_pairs' = ParseLoop(response, <<>>, num_cards)
  /\ parsePc' = "done"
  /\ UNCHANGED <<response, num_cards>>
  /\ UNCHANGED <<fontTier, fitVars, genVars, calls, mapVars, pdfVars, appVars>>

ParseNext == ParseResponse
SpecParse == ParseInit /\ [][ParseNext]_vars

\* ------------------------------------------------ st_app.py: the session
Pages == {"PDF Chat", "Flashcards", "Memory Map"}
IndexError == <<"IndexError">>

\* the responses the model gives in a session: none, one, three and four
\* usable fragments, some between fragments that are not
AppResponses ==
  { <<>>,
    <<Frag("broken", JAbsent, JAbsent)>>,
    <<Frag("object", JStr(<<"q">>), JStr(<<"a">>))>>,
    <<Frag("object", JStr(<<"q">>), JStr(<<"a">>)),
      Frag("broken", JAbsent, JAbsent),
      Frag("object", JStr(<<" ", "r", "?", " ">>), JStr(<<" ", "b", " ">>)),
      Frag("object", JStr(<<"s", "?">>), JStr(<<"a">>))>>,
    <<Frag("object", JStr(<<"q">>), JStr(<<"a">>)),
      Frag("object", JStr(<<" ", "r", "?", " ">>), JStr(<<" ", "b", " ">>)),
      Frag("object", JStr(<<"s", "?">>), JStr(<<"a">>)),
      Frag("object", JStr(<<"t">>), JStr(<<"a">>))>> }

\* lines 121-134, run at the top of every run of the script: the uploads
\* are processed when there are some and none were processed; load_pdf_files
\* or setup_vectorstore may raise, and then nothing is assigned
Processed(uploaded, was_processed, had_store) ==
  IF uploaded /\ ~was_processed
  THEN \/ files_processed' = TRUE /\ vectorstore' = TRUE
       \/ files_processed' = FALSE /\ vectorstore' = had_store
  ELSE files_processed' = was_processed /\ vectorstore' = had_store

\* lines 284-287: the page's look-up of the current question, by a list
\* index that may be negative
Lookup(questions, i) ==
  IF i >= -Len(questions) /\ i < Len(questions)
  THEN questions[IF i >= 0 THEN i + 1 ELSE Len(questions) + i + 1][1]
  ELSE IndexError
Displayed ==
  current_q' =
    IF selected_page' = "Flashcards" /\ files_processed'
       /\ flashcards_generated' /\ qa_dict' # <<>>
    THEN Lookup(qa_dict', idx')
    ELSE NoQuestion

\* the cards are on the page and their controls can be clicked
CardsShown ==
  /\ selected_page = "Flashcards"
  /\ files_processed
  /\ flashcards_generated /\ qa_dict # <<>>
  /\ current_q # IndexError

AppFrame == UNCHANGED <<fontTier, fitVars, genVars, calls, mapVars, pdfVars>>
CardsKept == UNCHANGED <<qa_dict, idx, show_front, flashcards_generated,
                         generations, parseVars>>

\* lines 71-75: the navigation radio
SelectPage ==
  /\ \E p \in Pages : selected_page' = p
  /\ clicked' = "page"
  /\ Processed(uploaded_files, files_processed, vectorstore)
  /\ UNCHANGED <<uploaded_files, messages>>
  /\ CardsKept
  /\ AppFrame
  /\ Displayed

\* lines 80-85: files are put into the uploader, or taken out of it
Upload ==
  /\ uploaded_files' = ~uploaded_files
  /\ clicked' = "upload"
  /\ Processed(~uploaded_files, files_processed, vectorstore)
  /\ UNCHANGED <<selected_page, messages>>
  /\ CardsKept
  /\ AppFrame
  /\ Displayed

\* lines 138-183: a question in the chat, and its answer
Chat ==
  /\ selected_page = "PDF Chat" /\ files_processed
  /\ messages < MaxMessages
  /\ messages' = messages + 2
  /\ clicked' = "chat"
  /\ UNCHANGED <<selected_page, uploaded_files, files_processed, vectorstore>>
  /\ CardsKept
  /\ AppFrame
  /\ Displayed

\* lines 196-197: the slider
SetNumCards ==
  /\ selected_page = "Flashcards" /\ files_processed
  /\ \E n \in (MinNumCards..DefaultNumCards) \ {num_cards} : num_cards' = n
  /\ clicked' = "slider"
  /\ UNCHANGED <<selected_page, uploaded_files, files_processed, vectorstore,
                 messages, qa_dict, idx, show_front, flashcards_generated,
                 generations, parsePc, response, qa_pairs>>
  /\ AppFrame
  /\ Displayed

\* lines 199-281: Generate New Flashcards; llm.invoke may raise, and then
\* the run ends with the session as it was
Generate ==
  /\ selected_page = "Flashcards" /\ files_processed
  /\ ~flashcards_generated
  /\ clicked' = "generate"
  /\ \/ /\ \E r \in AppResponses : response' = r
        /\ qa_pairs' = ParseLoop(response', <<>>, num_cards)
        /\ qa_dict' = qa_pairs'
        /\ flashcards_generated' = TRUE
        /\ idx' = 0
        /\ show_front' = TRUE
        /\ generations' = generations + 1
     \/ UNCHANGED <<response, qa_pairs, qa_dict, flashcards_generated, idx,
                    show_front, generations>>
  /\ UNCHANGED <<selected_page, uploaded_files, files_processed, vectorstore,
                 messages, parsePc, num_cards>>
  /\ AppFrame
  /\ Displayed

\* Previous without the modulo
PrevIndex_NoWrap(i, n) == i - 1
\* line 308
PrevIndex(i, n) == (i - 1) % n
\* line 319
NextIndex(i, n) == (i + 1) % n

\* lines 306-310
Previous ==
  /\ CardsShown
  /\ idx' = PrevIndex(idx, Len(qa_dict))
  /\ show_front' = TRUE
  /\ clicked' = "previous"
  /\ UNCHANGED <<selected_page, uploaded_files, files_processed, vectorstore,
                 messages, qa_dict, flashcards_generated, generations,
                 parseVars>>
  /\ AppFrame
  /\ Displayed

\* lines 312-315
Flip ==
  /\ CardsShown
  /\ show_front' = ~show_front
  /\ clicked' = "flip"
  /\ UNCHANGED <<selected_page, uploaded_files, files_processed, vectorstore,
                 messages, qa_dict, idx, flashcards_generated, generations,
                 parseVars>>
  /\ AppFrame
  /\ Displayed

\* lines 317-321
NextCard ==
  /\ CardsShown
  /\ idx' = NextIndex(idx, Len(qa_dict))
  /\ show_front' = TRUE
  /\ clicked' = "next"
  /\ UNCHANGED <<selected_page, uploaded_files, files_processed, vectorstore,
                 messages, qa_dict, flashcards_generated, generations,
                 parseVars>>
  /\ AppFrame
  /\ Displayed

\* lines 323-327: random.randint(0, len(questions) - 1), both ends included
RandomCard ==
  /\ CardsShown
  /\ \E r \in 0..(Len(qa_dict) - 1) : idx' = r
  /\ show_front' = TRUE
  /\ clicked' = "random"
  /\ UNCHANGED <<selected_page, uploaded_files, files_processed, vectorstore,
                 messages, qa_dict, flashcards_generated, generations,
                 parseVars>>
  /\ AppFrame
  /\ Displayed

\* a reset that forgets the flashcards as well
reset_all_WithCards ==
  /\ messages' = 0
  /\ qa_dict' = <<>>
  /\ idx' = 0
  /\ show_front' = TRUE
  /\ flashcards_generated' = FALSE
  /\ UNCHANGED <<generations, parseVars>>
\* lines 422-426: what reset_all assigns besides files_processed and
\* vectorstore, which the run of the script after it may set again
reset_all ==
  /\ messages' = 0
  /\ CardsKept

\* lines 421-428: Reset Everything, then the script runs from its top
Reset ==
  /\ files_processed \/ messages > 0
  /\ reset_all
  /\ clicked' = "reset"
  /\ Processed(uploaded_files, FALSE, FALSE)
  /\ UNCHANGED <<selected_page, uploaded_files>>
  /\ AppFrame
  /\ Displayed

AppInit ==
  /\ fontTier = "dejavu"
  /\ FitIdle
  /\ GenIdle
  /\ CallsIdle
  /\ MapIdle
  /\ PdfIdle
  /\ AppIdle
  /\ parsePc = "idle"
  /\ response = <<>>
  /\ num_cards = DefaultNumCards
  /\ qa_pairs = <<>>

AppNext ==
  \/ SelectPage \/ Upload \/ Chat \/ SetNumCards \/ Generate
  \/ Previous \/ Flip \/ NextCard \/ RandomCard \/ Reset
SpecApp == AppInit /\ [][AppNext]_vars

\* ================================================================ claims
WordCount(line) == Len(split(line))
HasNoSpace(t) == \A i \in 1..Len(t) : t[i] # " "

\* C1: every line wrap_text returns is at most max_width wide, except that
\* a line of exactly one word may be wider; a line of two or more words
\* never exceeds max_width.
C1_LineWidth ==
  fitPc # "call" =>
    \A i \in 1..Len(lines) :
      \/ get_text_bbox(lines[i], font)[1] <= max_width
      \/ WordCount(lines[i]) = 1
C1_Witness ==
  /\ fitPc = "done"
  /\ \E i \in 1..Len(lines) :
       WordCount(lines[i]) >= 2 /\ get_text_bbox(lines[i], font)[1] <= max_width
  /\ \E i \in 1..Len(lines) :
       WordCount(lines[i]) = 1 /\ get_text_bbox(lines[i], font)[1] > max_width

\* C2: joining the returned lines with single spaces gives the words of
\* text.split() joined by single spaces, after the first wrap and after
\* every shrink step.
C2_JoinRoundTrip ==
  fitPc # "call" => join(lines) = join(split(text))
C2_Witness ==
  /\ fitPc = "done"
  /\ iters >= 1
  /\ Len(lines) >= 2
  /\ text # join(split(text))
  /\ join(lines) = join(split(text))

\* C3: the shrink loop of scale_font_size_to_fit runs at most
\* (initial_size - 10) / 2 iterations, for every initial font size.
C3_IterationBound ==
  init_size >= FloorSize => ShrinkStep * iters <= init_size - FloorSize

\* C4: for every initial size >= 10, even or odd, the font size is
\* initial - 2k, never increases, and is never below the floor of 10 at any
\* iteration or on return.
C4_SizeFloor ==
  (fitPc # "call" /\ init_size >= FloorSize) =>
    /\ font_size = init_size - ShrinkStep * iters
    /\ font_size >= FloorSize

\* C10: a text that is one word without whitespace comes back as exactly
\* one line equal to that word, for every max_width and at every font size
\* the shrinking reaches.
C10_SingleWord ==
  (fitPc # "call" /\ text # <<>> /\ HasNoSpace(text)) => lines = <<text>>
C10_Witness ==
  /\ fitPc = "done"
  /\ iters >= 1
  /\ text # <<>> /\ HasNoSpace(text)
  /\ lines = <<text>>
  /\ get_text_bbox(text, font)[1] > max_width

\* a card made by _create_simple_card with this label and background
IsSimpleCard(card, label, bg) ==
  /\ card.kind = "simple"
  /\ card.size = <<SimpleWidth, SimpleHeight>>
  /\ card.bg = bg
  /\ card.draws # <<>>
  /\ card.draws[1].s = label
SameInputs(c, d) ==
  /\ c.called /\ d.called
  /\ c.question = d.question
  /\ c.answer = d.answer
  /\ c.question_template = d.question_template
MatchExists(qt) ==
  \E i \in 1..Len(answer_templates) : basename(answer_templates[i]) = basename(qt)

\* C5: with an empty question-template collection the front is always the
\* solid-colour QUESTION card on blue, whatever question_template is.
C5_FrontFallbackAlways ==
  (last.called /\ last.status = "returned" /\ question_templates = <<>>) =>
    IsSimpleCard(last.front, "QUESTION", "#4A90E2")
\* C5 as amended: with an empty question-template collection the front is
\* the solid-colour QUESTION card on blue when question_template is None or
\* empty, and the call returns; a non-empty question_template is rendered
\* as the front's template, the collection is not consulted.
C5_FrontFallbackWhenOmitted ==
  (last.called /\ question_templates = <<>>) =>
    /\ ~Truthy(last.question_template) =>
         /\ last.status = "returned"
         /\ IsSimpleCard(last.front, "QUESTION", "#4A90E2")
    /\ (Truthy(last.question_template) /\ last.status = "returned") =>
         /\ last.front.kind = "template"
         /\ last.front.template = last.question_template
C5_Witness ==
  /\ last.called /\ question_templates = <<>>
  /\ last.question_template = EmptyStr
  /\ answer_templates # <<>>
  /\ IsSimpleCard(last.front, "QUESTION", "#4A90E2")

\* C6: given a question_template whose base file name some answer template
\* has, the back uses an answer template of that base name and
\* random.choice is not called.
C6_MatchByBasename ==
  (last.called /\ Truthy(last.question_template)
     /\ MatchExists(last.question_template)) =>
    /\ basename(last.answer_template) = basename(last.question_template)
    /\ ~last.random
    /\ last.status = "returned" =>
         /\ last.back.kind = "template"
         /\ last.back.template = last.answer_template
C6_Witness ==
  /\ last.called /\ Truthy(last.question_template)
  /\ MatchExists(last.question_template)
  /\ Len(answer_templates) >= 2
  /\ last.status = "returned"
  /\ last.question_template # last.answer_template
  /\ basename(last.back.template) = basename(last.question_template)

\* C7: with both collections empty and no question_template, the pair is
\* two 800x500 solid cards, QUESTION on blue and ANSWER on green.
C7_BothFallback ==
  (last.called /\ question_templates = <<>> /\ answer_templates = <<>>
     /\ ~Truthy(last.question_template)) =>
    /\ last.status = "returned"
    /\ IsSimpleCard(last.front, "QUESTION", "#4A90E2")
    /\ IsSimpleCard(last.back, "ANSWER", "#27AE60")
    /\ last.front.size = <<800, 500>> /\ last.back.size = <<800, 500>>
C7_Witness ==
  /\ last.called /\ question_templates = <<>> /\ answer_templates = <<>>
  /\ last.question_template = NoneT
  /\ last.status = "returned"
  /\ last.back.kind = "simple"

\* a file that exists and cannot be decoded: the decode failure that is
\* meant to reach the caller
Undecodable(p) == p \in DOMAIN files /\ files[p] \in {"corrupt", "truncated"}
\* C8: no missing-resource condition makes the renderer raise: whatever the
\* directories, the collections, the question_template and the match, the
\* call returns a pair (files that exist and do not decode set aside).
C8_NeverRaises ==
  (last.called /\ ~Undecodable(last.question_template)
               /\ ~Undecodable(last.answer_template)) =>
    last.status = "returned"
\* C8 as amended: construction succeeds, and the call returns a pair by
\* fallback substitution whenever each template it selects (the supplied
\* question_template, the chosen answer template) can be opened and
\* decoded; a supplied question_template that cannot be opened raises.
C8_ReturnsWhenSelectedOpen ==
  /\ genPc = "new" => ENABLED Construct
  /\ (last.called
        /\ (Truthy(last.question_template) => Decodes(last.question_template))
        /\ (Truthy(last.answer_template) => Decodes(last.answer_template))) =>
       /\ last.status = "returned"
       /\ last.front.kind = IF Truthy(last.question_template)
                            THEN "template" ELSE "simple"
       /\ last.back.kind = IF Truthy(last.answer_template)
                           THEN "template" ELSE "simple"
       /\ Truthy(last.answer_template) =>
            \E i \in 1..Len(answer_templates) :
              answer_templates[i] = last.answer_template
  /\ (last.called /\ Truthy(last.question_template)
        /\ ~Decodes(last.question_template)) => last.status = "raised"
C8_Witness ==
  /\ last.called /\ last.status = "returned"
  /\ question_templates = <<>>
  /\ Truthy(last.question_template)
  /\ ~MatchExists(last.question_template)
  /\ last.random
  /\ last.back.kind = "template"

\* C9: two calls with the same question, answer and question_template use
\* the same templates and give the same pair, in every case.
C9_Deterministic ==
  SameInputs(prev, last) =>
    /\ prev.answer_template = last.answer_template
    /\ prev.status = last.status
    /\ prev.front = last.front
    /\ prev.back = last.back
\* C9 as amended: two such calls give the same front; they give the same
\* back template and card when no question_template is passed, when an
\* answer template matches its base file name, or when the answer
\* collection has at most one entry; otherwise each call's back template is
\* a member of the answer collection picked by random.choice.
C9_DeterministicButRandomPick ==
  SameInputs(prev, last) =>
    /\ prev.front = last.front
    /\ (\/ ~Truthy(last.question_template)
        \/ MatchExists(last.question_template)
        \/ Len(answer_templates) <= 1) =>
         /\ prev.answer_template = last.answer_template
         /\ prev.status = last.status
         /\ prev.back = last.back
    /\ last.random =>
         /\ \E i \in 1..Len(answer_templates) :
              answer_templates[i] = last.answer_template
         /\ \E i \in 1..Len(answer_templates) :
              answer_templates[i] = prev.answer_template
C9_Witness ==
  /\ SameInputs(prev, last)
  /\ Truthy(last.question_template)
  /\ MatchExists(last.question_template)
  /\ Len(answer_templates) >= 2
  /\ last.status = "returned"
  /\ prev.back = last.back

\* the files of directory d whose names end, whatever the case, in .png,
\* .jpg or .jpeg
ImageNamed(d) ==
  {p \in FilePaths : p.dir = d /\ files[p] # "absent" /\ HasImageExt(p.name)}
SeqRange(q) == {q[i] : i \in 1..Len(q)}

\* C11: after construction each collection is exactly the files of the
\* directory passed to the constructor for that role whose names end in
\* .png, .jpg or .jpeg (any case); a directory that does not exist gives an
\* empty collection.
C11_CollectionsAreListedImages ==
  genPc = "ready" =>
    /\ SeqRange(question_templates) = ImageNamed(ctor.question_templates_dir)
    /\ SeqRange(answer_templates) = ImageNamed(ctor.answer_templates_dir)

\* C12: when the template selected for the front or for the back cannot be
\* opened or decoded, create_flashcard_pair raises and returns no pair; no
\* other template and no solid-colour card stands in for it.
C12_DecodeFailurePropagates ==
  last.called =>
    /\ (Truthy(last.question_template) /\ ~Decodes(last.question_template)) =>
         /\ last.status = "raised"
         /\ last.front = NoCard /\ last.back = NoCard
    /\ (Truthy(last.answer_template) /\ ~Decodes(last.answer_template)) =>
         /\ last.status = "raised"
         /\ last.back = NoCard
C12_Witness ==
  /\ last.called
  /\ Truthy(last.answer_template)
  /\ files[last.answer_template] = "truncated"
  /\ last.front.kind = "template"
  /\ last.status = "raised"

\* C13: once constructed, no call, returning or raising, changes
\* question_templates, answer_templates or margin.
C13_StateReadOnly ==
  [][genPc = "ready" =>
       /\ question_templates' = question_templates
       /\ answer_templates' = answer_templates
       /\ margin' = margin]_vars
C13_Witness ==
  /\ last.called /\ last.status = "raised"
  /\ last.random
  /\ question_templates # <<>>
  /\ Len(answer_templates) >= 2
  /\ margin = MarginPx

\* what the call of thread t gives when it runs alone
Alone(t) ==
  CallOutcome(calls[t].question, calls[t].answer, calls[t].question_template,
              calls[t].pick)
\* C14: concurrent calls on one renderer do not interact: under every
\* interleaving of their statements each call's templates, font, lines and
\* positions are what the call gives when it runs alone.
C14_CallsIndependent ==
  \A t \in Threads :
    /\ calls[t].pc \in {"front", "back", "returned", "raised"} =>
         /\ calls[t].answer_template = Alone(t).answer_template
         /\ calls[t].random = Alone(t).random
    /\ calls[t].pc \in {"back", "returned", "raised"} =>
         calls[t].front = Alone(t).front
    /\ calls[t].pc \in {"returned", "raised"} =>
         /\ calls[t].pc = Alone(t).status
         /\ calls[t].back = Alone(t).back
C14_Witness ==
  /\ calls["t1"].pc = "returned" /\ calls["t2"].pc = "returned"
  /\ calls["t1"].random /\ calls["t2"].random
  /\ calls["t1"].answer_template # calls["t2"].answer_template
  /\ calls["t1"].question # calls["t2"].question
  /\ calls["t1"].back.kind = "template"

\* C15: wrap_text is greedy: each line but the last, extended by a space and
\* the first word of the line after it, is wider than max_width.
C15_Greedy ==
  fitPc # "call" =>
    \A i \in 1..(Len(lines) - 1) :
      get_text_bbox(lines[i] \o <<" ">> \o split(lines[i + 1])[1], font)[1]
        > max_width
C15_Witness ==
  /\ fitPc = "done"
  /\ iters >= 1
  /\ Len(lines) >= 2
  /\ WordCount(lines[1]) >= 2
  /\ get_text_bbox(lines[1], font)[1] = max_width

\* the font scale_font_size_to_fit was entered with
InitFont == [tier |-> fontTier, size |-> init_size]
\* C16: on return either the block of the returned lines (line heights plus
\* 15 px per gap) is at most max_height or the font size has reached the
\* floor; the returned lines are the wrap of the text at the returned font;
\* and the size is below the initial size exactly when the block wrapped at
\* the initial size is taller than max_height and the initial size is above
\* 10.
C16_FitOnReturn ==
  fitPc = "done" =>
    /\ \/ SumHeights(lines, font) + LineGap * (Len(lines) - 1) <= max_height
       \/ font_size <= FloorSize
    /\ lines = wrap_text(text, font, max_width)
    /\ font.size = font_size
    /\ (font_size < init_size) <=>
         /\ BlockHeight(wrap_text(text, InitFont, max_width), InitFont) > max_height
         /\ init_size > FloorSize
C16_Witness ==
  /\ fitPc = "done"
  /\ iters >= 1
  /\ font_size > FloorSize
  /\ Len(lines) >= 2
  /\ SumHeights(lines, font) + LineGap * (Len(lines) - 1) <= max_height
  /\ lines # wrap_text(text, InitFont, max_width)

\* C17: given a question_template whose base file name no answer template
\* has: with a non-empty answer collection the back is rendered on a member
\* of that collection, with an empty one the back is the solid 800x500
\* ANSWER card on green; the front is rendered on the question_template.
C17_NoMatchFallback ==
  (last.called /\ Truthy(last.question_template)
     /\ ~MatchExists(last.question_template)) =>
    /\ answer_templates # <<>> =>
         /\ last.answer_template \in SeqRange(answer_templates)
         /\ last.status = "returned" =>
              /\ last.back.kind = "template"
              /\ last.back.template = last.answer_template
    /\ answer_templates = <<>> =>
         /\ last.answer_template = NoneT
         /\ Decodes(last.question_template) => last.status = "returned"
         /\ last.status = "returned" =>
              IsSimpleCard(last.back, "ANSWER", "#27AE60")
    /\ last.status = "returned" =>
         /\ last.front.kind = "template"
         /\ last.front.template = last.question_template
         /\ last.front.size = ImageSize(last.question_template)
C17_Witness ==
  /\ last.called /\ Truthy(last.question_template)
  /\ ~MatchExists(last.question_template)
  /\ Len(answer_templates) >= 2
  /\ last.status = "returned"
  /\ last.back.template = answer_templates[2]
  /\ last.front.template = last.question_template

\* the draw.text calls of a card's text lines, in order (the shadow of a
\* template card and the label of a solid card left out)
LineDraws(card) ==
  IF card.kind = "simple" THEN Tail(card.draws)
  ELSE [i \in 1..(Len(card.draws) \div 2) |-> card.draws[2 * i]]
\* lines ls in font f laid out centred on a width x height canvas
CentredLayout(d, ls, f, width, height) ==
  /\ Len(d) = Len(ls)
  /\ \A i \in 1..Len(ls) :
       /\ d[i].s = ls[i]
       /\ d[i].font = f
       /\ d[i].x = (width - TextWidth(ls[i], f)) \div 2
       /\ d[i].y = IF i = 1
                   THEN (height - (SumHeights(ls, f) + 15 * (Len(ls) - 1))) \div 2
                   ELSE d[i - 1].y + TextHeight(ls[i - 1], f) + 15
TemplateLayout(card, t) ==
  card.kind = "template" =>
    LET fit == scale_font_size_to_fit(t, load_font(32), card.size[1] - 100,
                                      card.size[2] - 100)
    IN /\ card.size = ImageSize(card.template)
       /\ card.font = fit[1]
       /\ CentredLayout(LineDraws(card), fit[2], fit[1], card.size[1],
                        card.size[2])

\* C18: a template card's lines are those of the fit at 32 against
\* width - 100 and height - 100; the block starts at
\* floor((height - total_height) / 2) with total_height the line heights
\* plus 15 per gap, each line at x = floor((width - line_width) / 2), each
\* following line one line height plus 15 lower.
C18_TemplateLayout ==
  last.called =>
    /\ TemplateLayout(last.front, last.question)
    /\ TemplateLayout(last.back, last.answer)
C18_Witness ==
  /\ last.status = "returned"
  /\ last.front.kind = "template"
  /\ last.front.font.size < 32 /\ last.front.font.size > FloorSize
  /\ Len(LineDraws(last.front)) >= 2
  /\ LineDraws(last.front)[1].x # LineDraws(last.front)[2].x
  /\ last.back.kind = "template"
  /\ last.back.size # last.front.size

SimpleLayout(card, t, label) ==
  card.kind = "simple" =>
    /\ card.size = <<800, 500>>
    /\ card.font = load_font(36)
    /\ card.draws[1].s = label
    /\ card.draws[1].x = 20 /\ card.draws[1].y = 20
    /\ card.draws[1].font = load_font(20)
    /\ CentredLayout(LineDraws(card), wrap_text(t, load_font(36), 700),
                     load_font(36), 800, 500)

\* C19: the solid card never shrinks the font: it is 800x500, the text is
\* wrapped once in the font loaded at 36 against 700, the label is at
\* (20, 20) in the font loaded at 20, and the block is centred on 500
\* whatever its height, so a long text starts above the canvas.
C19_SimpleNeverShrinks ==
  last.called =>
    /\ SimpleLayout(last.front, last.question, "QUESTION")
    /\ SimpleLayout(last.back, last.answer, "ANSWER")
C19_Witness ==
  /\ last.status = "returned"
  /\ last.back.kind = "simple"
  /\ last.answer = LongText
  /\ last.back.font.size = 36
  /\ Len(LineDraws(last.back)) >= 2
  /\ LineDraws(last.back)[1].y < 0

\* two significant concepts joined by a relation, in either order
Linked(c, d) ==
  \E i \in 1..Len(relations) :
    relations[i] = <<c, d>> \/ relations[i] = <<d, c>>
\* shortest-path distances from the root over relations between
\* significant concepts, layer by layer: dist maps the concepts within k
\* edges to their distance, front is the layer at exactly k edges
RECURSIVE Layers(_, _, _)
Layers(front, dist, k) ==
  LET nxt == {d \in significant_concepts \ DOMAIN dist :
                \E c \in front : Linked(c, d)}
  IN IF nxt = {} THEN dist
     ELSE Layers(nxt, [d \in nxt |-> k + 1] @@ dist, k + 1)
ShortestPaths == Layers({root_node}, (root_node :> 0), 0)
\* joined to the root when the concepts on the way need not be significant
RECURSIVE BallAll(_)
BallAll(k) ==
  IF k = 0 THEN {root_node}
  ELSE LET b == BallAll(k - 1)
       IN b \cup {d \in Keys(concept_connections) : \E c \in b : Linked(c, d)}

\* C20: when the leveling pass is over the root, a most connected concept,
\* has level 0, every significant concept reachable from it through
\* relations between significant concepts has its shortest-path distance
\* as level, every other significant concept has max_level + 1, and the
\* concepts with a level are exactly the significant ones.
C20_BreadthFirstLevels ==
  mapPc = "done" =>
    LET dist == ShortestPaths
    IN /\ DOMAIN levels = significant_concepts
       /\ root_node \in significant_concepts
       /\ \A i \in 1..Len(concept_connections) :
            concept_connections[i][1] = root_node =>
              \A j \in 1..Len(concept_connections) :
                concept_connections[j][2] <= concept_connections[i][2]
       /\ levels[root_node] = 0
       /\ \A c \in significant_concepts :
            IF c \in DOMAIN dist THEN levels[c] = dist[c]
            ELSE levels[c] = max_level + 1
       /\ \A c \in DOMAIN dist : dist[c] <= max_level
       /\ \E c \in DOMAIN dist : dist[c] = max_level
C20_Witness ==
  /\ mapPc = "done"
  /\ significant_concepts # Keys(concept_connections)
  /\ \E c \in DOMAIN ShortestPaths : levels[c] = 2
  /\ \E c \in significant_concepts \ DOMAIN ShortestPaths :
       c \in BallAll(Len(concept_connections))
  /\ \E c \in significant_concepts \ DOMAIN ShortestPaths : levels[c] = 3


\* the connection count of a concept
CountOf(c) ==
  concept_connections[CHOOSE i \in 1..Len(concept_connections) :
                        concept_connections[i][1] = c][2]

\* C21: every concept that becomes a node of the map (lines 239-293 add a
\* node for each significant concept) has a connection count of at least
\* min_connections.
C21_NodesMeetMinimum ==
  mapPc \in {"loop", "done"} =>
    \A c \in significant_concepts : CountOf(c) >= min_connections

\* C22: when load_pdf_files has ended, by returning or by raising, on a
\* temp_uploads directory that held no file of another origin, the
\* directory is gone and no copy of an uploaded file is left in it.
C22_TempCleaned ==
  (pdfPc \in {"returned", "raised"} /\ StaleName \notin temp_files) =>
    (~temp_exists /\ temp_files = {})

\* C23: called with question_template None or empty, the call returns two
\* solid 800x500 cards, QUESTION on blue and ANSWER on green, and selects
\* no answer template, whatever the answer-template collection holds.
C23_NoTemplateBothSimple ==
  (last.called /\ ~Truthy(last.question_template)) =>
    /\ last.status = "returned"
    /\ last.answer_template = NoneT
    /\ ~last.random
    /\ IsSimpleCard(last.front, "QUESTION", "#4A90E2")
    /\ IsSimpleCard(last.back, "ANSWER", "#27AE60")
C23_Witness ==
  /\ last.called /\ last.question_template = NoneT
  /\ Len(answer_templates) >= 2 /\ question_templates # <<>>
  /\ last.status = "returned"
  /\ last.back.kind = "simple" /\ last.front.kind = "simple"

\* the fragments that are JSON objects with a non-blank string question
\* and answer, read before the text is rewritten
Usable(f) ==
  /\ f.syntax = "object"
  /\ f.question.t = "str" /\ f.answer.t = "str"
  /\ \E i \in 1..Len(f.question.s) : f.question.s[i] # " "
  /\ \E i \in 1..Len(f.answer.s) : f.answer.s[i] # " "
\* the entries the fragments of q give, one after the other, up to n
RECURSIVE Collected(_, _, _)
Collected(q, d, n) ==
  IF q = <<>> \/ Len(d) >= n THEN d
  ELSE Collected(Tail(q), Put(d, CleanQuestion(Head(q).question.s),
                              strip(Head(q).answer.s)), n)
EntriesShaped ==
  /\ Len(qa_pairs) <= num_cards
  /\ \A i \in 1..Len(qa_pairs) :
       LET k == qa_pairs[i][1]
           v == qa_pairs[i][2]
       IN /\ k # <<>> /\ Head(k) # " " /\ k[Len(k)] = "?"
          /\ v # <<>> /\ Head(v) # " " /\ v[Len(v)] # " "
  /\ \A i, j \in 1..Len(qa_pairs) : qa_pairs[i][1] = qa_pairs[j][1] => i = j

\* C26: after the parsing qa_dict holds at most num_cards entries, each a
\* stripped non-empty question ending with ? and a stripped non-empty
\* answer, and the entries are those of the usable fragments: a fragment
\* that is no valid JSON or lacks a string question or answer adds nothing
\* and does not stop the fragments after it from being read.
C26_BadFragmentsSkipped ==
  parsePc = "done" =>
    /\ EntriesShaped
    /\ qa_pairs = Collected(SelectSeq(response, Usable), <<>>, num_cards)


\* C24: once flashcards were generated with a non-empty qa_dict, after any
\* sequence of actions idx is in 0 .. len(qa_dict) - 1, and the look-up of
\* the current question never fails.
C24_IndexInRange ==
  /\ (flashcards_generated /\ qa_dict # <<>>) =>
       (idx >= 0 /\ idx <= Len(qa_dict) - 1)
  /\ current_q # IndexError
C24_Witness ==
  /\ clicked = "previous"
  /\ Len(qa_dict) >= 3
  /\ idx = Len(qa_dict) - 1
  /\ current_q = qa_dict[Len(qa_dict)][1]
  /\ messages = 0 /\ ~uploaded_files

\* C25: flashcards_generated never goes from True back to False; Reset
\* Everything empties the messages and leaves qa_dict, idx, show_front and
\* flashcards_generated as they were; a generation completes only while
\* the flag is False, so at most once in a session.
C25_GeneratedOnce ==
  [][/\ flashcards_generated => flashcards_generated'
     /\ clicked' = "reset" =>
          /\ messages' = 0
          /\ UNCHANGED <<qa_dict, idx, show_front, flashcards_generated>>
     /\ generations' > generations =>
          (~flashcards_generated /\ flashcards_generated')
     /\ generations' <= 1]_vars
C25_Witness ==
  /\ clicked = "reset"
  /\ generations = 1 /\ flashcards_generated
  /\ qa_dict = <<>>
  /\ response # <<>>
  /\ selected_page = "Flashcards" /\ files_processed

\* a text that is empty or holds only whitespace
Blank(t) == \A i \in 1..Len(t) : t[i] = " "
\* a card on which no text line is drawn: nothing on a template card, the
\* label alone on the solid card
NoLineDrawn(card) ==
  /\ card.kind \in {"template", "simple"}
  /\ LineDraws(card) = <<>>
  /\ Len(card.draws) = IF card.kind = "simple" THEN 1 ELSE 0
WrapsToNothing(t) ==
  \A size \in {FloorSize, 32, 36}, mw \in {0, 40, 700} :
    /\ wrap_text(t, load_font(size), mw) = <<>>
    /\ BlockHeight(wrap_text(t, load_font(size), mw), load_font(size)) = -15

\* C27: for an empty or blank text wrap_text returns no lines, the block
\* height is -15, and the template path (on a template that decodes) and
\* the solid path both return a card with no text line drawn, without
\* raising.
C27_BlankText ==
  last.called =>
    /\ Blank(last.question) =>
         /\ WrapsToNothing(last.question)
         /\ (~Truthy(last.question_template) \/ Decodes(last.question_template))
              => NoLineDrawn(last.front)
    /\ (Blank(last.answer) /\ last.front.kind # "none") =>
         /\ WrapsToNothing(last.answer)
         /\ (~Truthy(last.answer_template) \/ Decodes(last.answer_template))
              => (last.status = "returned" /\ NoLineDrawn(last.back))
C27_Witness ==
  /\ last.status = "returned"
  /\ last.question = <<" ", " ">> /\ last.answer = <<>>
  /\ last.front.kind = "template" /\ last.front.draws = <<>>
  /\ last.back.kind = "simple" /\ Len(last.back.draws) = 1
====
